---- MODULE Spec2Model ----
(***************************************************************************)
(* The user resource controller of myfontsns-backend: the five endpoints   *)
(* (index, create, show, update, destroy), the validation each one runs,   *)
(* the store calls each one awaits and the document each one sends.        *)
(* Two controller files are in the repository: the one that wraps its      *)
(* store calls in try/catch and db.transaction (userController.ts) and the *)
(* one that does not (part_000); `ctl' says which one serves the requests, *)
(* `load' what the clients send.  `ise' is one InternalServerError          *)
(* instance, followed from the fault it is built for to the entry toJSON   *)
(* returns.                                                                *)
(***************************************************************************)
EXTENDS Integers, Sequences, FiniteSets, TLC

VARIABLES ctl, load, store, nextId, nreq, req, ise

vars == <<ctl, load, store, nextId, nreq, req, ise>>

----------------------------------------------------------------------------
(* Bounds of the model *)

MaxReqs == 2    \* requests begun in one behaviour, two clients, scenario bodies
MaxSoloReqs == 1 \* requests begun in one behaviour, one client, any body
MaxId == 2      \* primary keys the store hands out
MaxCalls == 3   \* calls of toJSON on one InternalServerError instance

----------------------------------------------------------------------------
(* Environment: who sends requests and what they send *)

Controllers == {"userController.ts", "part_000"}

Clients == {"a", "b"}

Fields == {"name", "screenName", "email", "password"}

FieldOrder == <<"name", "screenName", "email", "password">>

Kinds == {"index", "create", "show", "update", "destroy"}

IdParams == 1..MaxId

\* the values a client may put in each field of a request body
FieldValues ==
  [name |-> {"", "x"},
   screenName |-> {"", "ok"},
   email |-> {"", "not-an-email", "A@B.com"},
   password |-> {"", "weak", "Str0ng!pass"}]

BodiesOver(S) ==
  {b \in [S -> UNION {FieldValues[f] : f \in Fields}] :
     \A f \in S : b[f] \in FieldValues[f]}

\* every request body: any subset of the fields, any value for each
AllBodies == UNION {BodiesOver(S) : S \in SUBSET Fields}

MkBody(S, b) == [f \in S |-> b[f]]

ValidFull == [name |-> "x", screenName |-> "ok", email |-> "A@B.com", password |-> "Str0ng!pass"]

\* the bodies of the scenarios: empty, one bad field, forbidden name, partial, full
ScenarioBodies ==
  { MkBody({}, ValidFull),
    MkBody({"screenName", "email", "password"}, [ValidFull EXCEPT !.screenName = ""]),
    MkBody(Fields, ValidFull),
    MkBody({"email"}, [ValidFull EXCEPT !.email = "not-an-email"]),
    MkBody({"screenName", "email", "password"}, ValidFull),
    MkBody({"screenName"}, ValidFull),
    MkBody({"name", "email"}, ValidFull) }

\* faker.random.alphaNumeric(15)
GenNames == {"k3x0a9d2m5q8r1z", "w7b4n6c1v0p3s5t"}

NoRow == [absent |-> TRUE]

SeedRow == [id |-> 1, name |-> "k3x0a9d2m5q8r1z", screenName |-> "seed",
            email |-> "seed@b.com", password |-> "S33d!pass"]

NoUser == [absent |-> TRUE]

NoDoc == [nothing |-> TRUE]

\* the values a catch block may be handed: Error instances (name, message),
\* strings, numbers (text is the numeral), null, undefined, functions, plain
\* objects (text is their JSON), objects that refer to themselves, bigints
ErrorNames == {"Error", "TypeError", "SequelizeDatabaseError", "SequelizeUniqueConstraintError"}

Messages == {"", "boom", "connection lost", "Validation error"}

FaultValues ==
  [type : {"Error"}, name : ErrorNames, text : Messages]
    \cup [type : {"string"}, name : {""}, text : Messages]
    \cup [type : {"number"}, name : {""}, text : {"0", "42"}]
    \cup [type : {"object"}, name : {""}, text : {"{}", "{\"code\":23505}"}]
    \cup [type : {"null", "undefined", "function", "circular", "bigint"},
          name : {""}, text : {""}]

\* what the store rejects with
StoreFaults == {[type |-> "Error", name |-> "SequelizeDatabaseError", text |-> "connection lost"]}

----------------------------------------------------------------------------
(* Field constraints and the validation runner *)

EmailShaped == {"A@B.com", "a@b.com", "seed@b.com"}

StrongPasswords == {"Str0ng!pass", "S33d!pass"}

normalizeEmail(v) == IF v = "A@B.com" THEN "a@b.com" ELSE v

\* does constraint `kind' fail on field f of body b
Fails(kind, f, b) ==
  LET present == f \in DOMAIN b
      v == IF present THEN b[f] ELSE ""
  IN CASE kind = "shouldExist" -> ~present
       [] kind = "shouldNotExist" -> present
       [] kind = "shouldNotBeEmpty" -> v = ""
       [] kind = "shouldBeEmail" -> v \notin EmailShaped
       [] kind = "shouldBeStrongPassword" -> v \notin StrongPasswords

\* create without the non-empty check on screenName
CreateSchema_NoNotEmpty ==
  [name |-> <<"shouldNotExist">>,
   screenName |-> <<"shouldExist">>,
   email |-> <<"shouldExist", "shouldNotBeEmpty", "shouldBeEmail">>,
   password |-> <<"shouldExist", "shouldNotBeEmpty", "shouldBeStrongPassword">>]

\* create that lets the client supply name
CreateSchema_NameAllowed ==
  [name |-> <<>>,
   screenName |-> <<"shouldExist", "shouldNotBeEmpty">>,
   email |-> <<"shouldExist", "shouldNotBeEmpty", "shouldBeEmail">>,
   password |-> <<"shouldExist", "shouldNotBeEmpty", "shouldBeStrongPassword">>]

\* schema of create
CreateSchema ==
  [name |-> <<"shouldNotExist">>,
   screenName |-> <<"shouldExist", "shouldNotBeEmpty">>,
   email |-> <<"shouldExist", "shouldNotBeEmpty", "shouldBeEmail">>,
   password |-> <<"shouldExist", "shouldNotBeEmpty", "shouldBeStrongPassword">>]

\* update without the email format check
UpdateSchema_NoEmailCheck ==
  [name |-> <<"shouldNotBeEmpty">>,
   screenName |-> <<"shouldNotBeEmpty">>,
   email |-> <<"shouldNotBeEmpty">>,
   password |-> <<"shouldNotBeEmpty", "shouldBeStrongPassword">>]

\* schema of update; each chain runs only if the field exists
UpdateSchema ==
  [name |-> <<"shouldNotBeEmpty">>,
   screenName |-> <<"shouldNotBeEmpty">>,
   email |-> <<"shouldNotBeEmpty", "shouldBeEmail">>,
   password |-> <<"shouldNotBeEmpty", "shouldBeStrongPassword">>]

RECURSIVE Checks(_, _)
\* the <<field, constraint>> pairs of a schema, in declaration order, from field i on
Checks(schema, i) ==
  IF i > Len(FieldOrder) THEN <<>>
  ELSE LET f == FieldOrder[i]
       IN [k \in 1..Len(schema[f]) |-> <<f, schema[f][k]>>] \o Checks(schema, i + 1)

\* runAllValidations: every chain of every field runs; failures are collected
runAllValidations(schema, partial, b) ==
  LET bad(p) == /\ (partial => p[1] \in DOMAIN b)
                /\ Fails(p[2], p[1], b)
  IN SelectSeq(Checks(schema, 1), bad)

\* validationError(errors): one entry per failure, field named in source
validationError(failures) ==
  [i \in 1..Len(failures) |->
     [status |-> 422, title |-> "Unprocessable Entity",
      detail |-> failures[i][2], source |-> [field |-> failures[i][1]]]]

\* matchedData that includes the fields the body does not carry
matchedData_WithOptionals(b) ==
  [f \in Fields |-> IF f \notin DOMAIN b THEN ""
                    ELSE IF f = "email" THEN normalizeEmail(b[f]) ELSE b[f]]

\* matchedData(req): the validated fields that are present, sanitized;
\* validatedUserData of create and update
matchedData(b) ==
  [f \in DOMAIN b |-> IF f = "email" THEN normalizeEmail(b[f]) ELSE b[f]]

----------------------------------------------------------------------------
(* Error taxonomy and document builder *)

INTERNAL_SERVER_ERROR == 500

getReasonPhrase(code) == IF code = 500 THEN "Internal Server Error" ELSE "Unknown"

GenericDetail == "The server encountered an internal error or misconfiguration and was unable to complete your request."

\* a number and a string as members of a JSON document
JsNumber(n) == [number |-> n]

JsString(str) == [string |-> str]

\* value instanceof Error
instanceofError(value) == value.type = "Error"

\* Error.prototype.toString: the name, then the message if there is one
ErrorToString(value) ==
  IF value.text = "" THEN value.name ELSE value.name \o ": " \o value.text

\* JSON.stringify(value): it throws on a cycle and on a bigint, it returns
\* undefined for undefined and for a function, and a JSON text otherwise
JSONstringify(value) ==
  CASE value.type \in {"circular", "bigint"} -> [threw |-> TRUE, undef |-> FALSE, text |-> ""]
    [] value.type \in {"undefined", "function"} -> [threw |-> FALSE, undef |-> TRUE, text |-> ""]
    [] value.type = "string" -> [threw |-> FALSE, undef |-> FALSE, text |-> "\"" \o value.text \o "\""]
    [] value.type = "null" -> [threw |-> FALSE, undef |-> FALSE, text |-> "null"]
    [] value.type = "Error" -> [threw |-> FALSE, undef |-> FALSE, text |-> "{}"]
    [] OTHER -> [threw |-> FALSE, undef |-> FALSE, text |-> value.text]

\* JSON.parse(text) throws when it is handed undefined
JSONparseThrows(json) == json.undef

\* isSerializable without the try block: the exception propagates
isSerializable_NoCatch(value) ==
  IF JSONstringify(value).threw \/ JSONparseThrows(JSONstringify(value))
  THEN "throws" ELSE "true"

\* isSerializable(value): "true", "false", or "throws" if an exception left it
isSerializable(value) ==
  IF JSONstringify(value).threw \/ JSONparseThrows(JSONstringify(value))
  THEN "false" ELSE "true"

\* new InternalServerError(error); super() is called with no message
NewInternalServerError(error) ==
  [name |-> "InternalServerError", statusCode |-> INTERNAL_SERVER_ERROR,
   error |-> error, detail |-> GenericDetail, message |-> ""]

\* the detail field of the instance after toJSON has run
DetailAfter(e) ==
  IF instanceofError(e.error) THEN ErrorToString(e.error)
  ELSE IF isSerializable(e.error) = "true" THEN JSONstringify(e.error).text
  ELSE e.detail

\* does toJSON leave with an exception: from isSerializable, or from the
\* second JSON.stringify
toJSONThrows(e) ==
  /\ ~instanceofError(e.error)
  /\ \/ isSerializable(e.error) = "throws"
     \/ isSerializable(e.error) = "true" /\ JSONstringify(e.error).threw

\* toJSON that returns the detail field it has just set
toJSON_ReturnsDetail(e) ==
  [status |-> JsString(getReasonPhrase(e.statusCode)), title |-> JsString(e.name),
   detail |-> JsString(DetailAfter(e))]

\* the object InternalServerError.toJSON returns
toJSON(e) ==
  [status |-> JsString(getReasonPhrase(e.statusCode)), title |-> JsString(e.name),
   detail |-> JsString(e.message)]

\* internalServerError(error) of lib/controller
internalServerError(error) == toJSON(NewInternalServerError(error))

\* resourceNotFound() of lib/controller
resourceNotFound ==
  [status |-> 404, title |-> "Not Found", detail |-> "The requested resource was not found."]

\* docWithErrors: the document of a list of error objects
docWithErrors(es) == [errors |-> es]

docWithData(d) == [data |-> d]

\* user.convert(): the public representation of a row
convert(row) ==
  [id |-> row.id, name |-> row.name, screenName |-> row.screenName, email |-> row.email]

----------------------------------------------------------------------------
(* The store *)

Ids == 1..MaxId

RECURSIVE RowsFrom(_)
\* User.findAll(): the rows in primary key order
RowsFrom(i) ==
  IF i > MaxId THEN <<>>
  ELSE (IF store[i] # NoRow THEN <<store[i]>> ELSE <<>>) \o RowsFrom(i + 1)

findAll == RowsFrom(1)

\* User.findByPk(id)
findByPk(id) == IF id \in Ids /\ store[id] # NoRow THEN store[id] ELSE NoUser

\* instance.set(values): the in-memory instance takes the given values
SetValues(user, data) ==
  [k \in DOMAIN user |-> IF k \in DOMAIN data THEN data[k] ELSE user[k]]

\* UPDATE ... WHERE id: the row, if still there, takes the given values
StoreUpdate(id, data) ==
  [store EXCEPT ![id] = IF @ = NoRow THEN NoRow ELSE SetValues(@, data)]

\* a destroy that leaves the row in place
StoreDestroy_Keeps(id) == store

\* DELETE ... WHERE id
StoreDestroy(id) == [store EXCEPT ![id] = NoRow]

\* INSERT: the row gets the next primary key
StoreCreate(user) == [store EXCEPT ![nextId] = [user EXCEPT !.id = nextId]]

----------------------------------------------------------------------------
(* Requests *)

Idle ==
  [kind |-> "none", id |-> 0, body |-> MkBody({}, ValidFull), pc |-> "idle",
   user |-> NoUser, data |-> MkBody({}, ValidFull), before |-> NoRow,
   lookup |-> "none", failures |-> <<>>, validated |-> FALSE,
   faulted |-> FALSE, txns |-> 0, writes |-> 0, committed |-> FALSE,
   status |-> 0, doc |-> NoDoc, sent |-> 0]

transactional == ctl = "userController.ts"

catches == ctl = "userController.ts"

InFlight(c) == req[c].pc \notin {"idle", "done", "unhandled"}

Creating == {c \in Clients : req[c].kind = "create" /\ InFlight(c)}

\* res.status(code).send(doc): the request is answered
Send(r, code, doc) ==
  [r EXCEPT !.pc = "done", !.status = code, !.doc = doc, !.sent = @ + 1]

\* a store call rejected: caught and answered with 500, or left to propagate
Fault(r, error) ==
  IF catches
  THEN Send([r EXCEPT !.faulted = TRUE], 500, docWithErrors(<<internalServerError(error)>>))
  ELSE [r EXCEPT !.faulted = TRUE, !.pc = "unhandled"]

\* a rejection outside every try block: the handler's promise rejects
Escape(r) == [r EXCEPT !.faulted = TRUE, !.pc = "unhandled"]

\* no InternalServerError instance is followed
NoIse == [pc |-> "none", error |-> CHOOSE e \in StoreFaults : TRUE,
          inst |-> NewInternalServerError(CHOOSE e \in StoreFaults : TRUE),
          out |-> NoDoc, calls |-> 0]

Init ==
  /\ ctl \in Controllers
  /\ load = "scenarios"
  /\ ise = NoIse
  /\ store = [i \in Ids |-> IF i = 1 THEN SeedRow ELSE NoRow]
  /\ nextId = 2
  /\ nreq = 0
  /\ req = [c \in Clients |-> Idle]

\* one client at a time, any body
InitSolo ==
  /\ ctl \in Controllers
  /\ load = "any"
  /\ ise = NoIse
  /\ store = [i \in Ids |-> IF i = 1 THEN SeedRow ELSE NoRow]
  /\ nextId = 2
  /\ nreq = 0
  /\ req = [c \in Clients |-> Idle]

\* the clients that send requests, the bodies they send and how many requests
\* a behaviour holds: two clients sending the scenario bodies, or one client
\* sending any body
ActiveClients == IF load = "any" THEN {"a"} ELSE Clients

Bodies == IF load = "any" THEN AllBodies ELSE ScenarioBodies

Budget == IF load = "any" THEN MaxSoloReqs ELSE MaxReqs

\* a client sends a request
Begin(c) ==
  /\ c \in ActiveClients
  /\ ~InFlight(c)
  /\ nreq < Budget
  /\ \E kind \in Kinds, id \in IdParams, b \in Bodies :
       /\ kind \in {"index", "create"} => id = 1
       /\ kind \in {"index", "show", "destroy"} => DOMAIN b = {}
       /\ kind = "create" => nextId + Cardinality(Creating) <= MaxId
       /\ req' = [req EXCEPT ![c] =
             [Idle EXCEPT !.kind = kind,
                          !.id = IF kind \in {"index", "create"} THEN 0 ELSE id,
                          !.body = b,
                          !.before = store,
                          !.pc = CASE kind = "index" -> "findAll"
                                   [] kind = "create" -> "validate"
                                   [] OTHER -> "lookup"]]
  /\ nreq' = nreq + 1
  /\ UNCHANGED <<ctl, load, ise, store, nextId>>

\* getUserById whose caller answers 404 on a miss and then goes on
getUserById_NoReturn(r, next) ==
  LET result == findByPk(r.id)
      blank == [id |-> r.id, name |-> "", screenName |-> "", email |-> "", password |-> ""]
  IN IF result = NoUser
     THEN [Send([r EXCEPT !.lookup = "miss", !.user = blank], 404,
                docWithErrors(<<resourceNotFound>>)) EXCEPT !.pc = next]
     ELSE [r EXCEPT !.lookup = "found", !.user = result, !.pc = next]

\* getUserById that turns a missing row into a blank instance
getUserById_Coerce(r, next) ==
  LET result == findByPk(r.id)
      blank == [id |-> r.id, name |-> "", screenName |-> "", email |-> "", password |-> ""]
  IN [r EXCEPT !.lookup = IF result = NoUser THEN "miss" ELSE "found",
               !.user = IF result = NoUser THEN blank ELSE result,
               !.pc = next]

\* the outcome of getUserById(req.params.id) for a handler that goes on to `next'
getUserById(r, next) ==
  LET result == findByPk(r.id)
  IN IF result = NoUser
     THEN Send([r EXCEPT !.lookup = "miss"], 404, docWithErrors(<<resourceNotFound>>))
     ELSE [r EXCEPT !.lookup = "found", !.user = result, !.pc = next]

\* index: await User.findAll(), then the list document
Index(c) ==
  /\ req[c].pc = "findAll"
  /\ \/ \E error \in StoreFaults : req' = [req EXCEPT ![c] = Fault(@, error)]
     \/ req' = [req EXCEPT ![c] =
          Send(@, 200, docWithData([i \in 1..Len(findAll) |-> convert(findAll[i])]))]
  /\ UNCHANGED <<ctl, load, ise, store, nextId, nreq>>

\* show: await getUserById, then 404 or the resource document
Show(c) ==
  /\ req[c].pc = "lookup" /\ req[c].kind = "show"
  /\ \/ \E error \in StoreFaults : req' = [req EXCEPT ![c] = Fault(@, error)]
     \/ LET r == getUserById(req[c], "respond")
        IN req' = [req EXCEPT ![c] =
             IF r.pc = "respond" THEN Send(r, 200, docWithData(convert(r.user))) ELSE r]
  /\ UNCHANGED <<ctl, load, ise, store, nextId, nreq>>

\* a validation stage whose result is never thrown: the write starts anyway
Validated_Ignored(r, schema, partial) ==
  [r EXCEPT !.failures = runAllValidations(schema, partial, r.body),
            !.data = matchedData_WithOptionals(r.body), !.pc = "write"]

\* the validation stage of create and update: 422 with every failure, or go on
Validated(r, schema, partial) ==
  LET failures == runAllValidations(schema, partial, r.body)
  IN IF Len(failures) > 0
     THEN Send([r EXCEPT !.failures = failures], 422,
               docWithErrors(validationError(failures)))
     ELSE [r EXCEPT !.validated = TRUE, !.data = matchedData(r.body), !.pc = "write"]

\* create: await runAllValidations(validations)(req)
CreateValidate(c) ==
  /\ req[c].pc = "validate" /\ req[c].kind = "create"
  /\ req' = [req EXCEPT ![c] = Validated(@, CreateSchema, FALSE)]
  /\ UNCHANGED <<ctl, load, ise, store, nextId, nreq>>

\* the instance User.create is given: generated name, validated fields
NewUser(r, n) ==
  [id |-> 0, name |-> n, screenName |-> r.data.screenName,
   email |-> r.data.email, password |-> r.data.password]

\* the store write of a request, applied
Effect(r) ==
  CASE r.kind = "create" -> StoreCreate(r.user)
    [] r.kind = "update" -> StoreUpdate(r.id, r.data)
    [] r.kind = "destroy" -> StoreDestroy(r.id)

\* create answering with the default status
AfterWrite_DefaultStatus(r) ==
  CASE r.kind = "create" ->
         Send([r EXCEPT !.user.id = nextId], 200,
              docWithData(convert([r.user EXCEPT !.id = nextId])))
    [] r.kind = "update" -> [r EXCEPT !.pc = "reload"]
    [] r.kind = "destroy" -> Send(r, 200, docWithData(convert(r.user)))

\* what the handler does once its write has completed
AfterWrite(r) ==
  CASE r.kind = "create" ->
         Send([r EXCEPT !.user.id = nextId], 201,
              docWithData(convert([r.user EXCEPT !.id = nextId])))
    [] r.kind = "update" -> [r EXCEPT !.pc = "reload"]
    [] r.kind = "destroy" -> Send(r, 200, docWithData(convert(r.user)))

\* the write is issued: inside db.transaction it is pending until the commit,
\* without a transaction it is applied at once
Write(c, r) ==
  /\ req[c].pc = "write"
  /\ LET w == [r EXCEPT !.writes = @ + 1,
                        !.txns = IF transactional THEN @ + 1 ELSE @]
     IN \/ /\ \E error \in StoreFaults : req' = [req EXCEPT ![c] = Fault(w, error)]
           /\ UNCHANGED <<store, nextId>>
        \/ /\ transactional
           /\ req' = [req EXCEPT ![c] = [w EXCEPT !.pc = "commit"]]
           /\ UNCHANGED <<store, nextId>>
        \/ /\ ~transactional
           /\ store' = Effect(w)
           /\ nextId' = IF w.kind = "create" THEN nextId + 1 ELSE nextId
           /\ req' = [req EXCEPT ![c] = AfterWrite([w EXCEPT !.committed = TRUE])]
  /\ UNCHANGED <<ctl, load, ise, nreq>>

\* the transaction ends: it commits and the write shows, or it faults and rolls back
Commit(c) ==
  /\ req[c].pc = "commit"
  /\ \/ /\ \E error \in StoreFaults : req' = [req EXCEPT ![c] = Fault(@, error)]
        /\ UNCHANGED <<store, nextId>>
     \/ /\ store' = Effect(req[c])
        /\ nextId' = IF req[c].kind = "create" THEN nextId + 1 ELSE nextId
        /\ req' = [req EXCEPT ![c] = AfterWrite([@ EXCEPT !.committed = TRUE])]
  /\ UNCHANGED <<ctl, load, ise, nreq>>

\* create: User.create with a generated name
CreateWrite(c) ==
  /\ req[c].kind = "create"
  /\ \E n \in GenNames : Write(c, [req[c] EXCEPT !.user = NewUser(req[c], n)])

CreateCommit(c) == req[c].kind = "create" /\ Commit(c)

\* update that validates the body before it looks the row up
UpdateLookup_ValidateFirst(c) ==
  /\ req[c].pc = "lookup" /\ req[c].kind = "update"
  /\ req' = [req EXCEPT ![c] =
       IF Len(runAllValidations(UpdateSchema, TRUE, @.body)) > 0
       THEN Validated(@, UpdateSchema, TRUE)
       ELSE getUserById(@, "validate")]
  /\ UNCHANGED <<ctl, load, ise, store, nextId, nreq>>

\* update: await getUserById, 404 on a miss
UpdateLookup(c) ==
  /\ req[c].pc = "lookup" /\ req[c].kind = "update"
  /\ \/ \E error \in StoreFaults : req' = [req EXCEPT ![c] = Fault(@, error)]
     \/ req' = [req EXCEPT ![c] = getUserById(@, "validate")]
  /\ UNCHANGED <<ctl, load, ise, store, nextId, nreq>>

\* update: await runAllValidations(validations)(req)
UpdateValidate(c) ==
  /\ req[c].pc = "validate" /\ req[c].kind = "update"
  /\ req' = [req EXCEPT ![c] = Validated(@, UpdateSchema, TRUE)]
  /\ UNCHANGED <<ctl, load, ise, store, nextId, nreq>>

\* update: user.update(validatedUserData)
UpdateWrite(c) ==
  /\ req[c].kind = "update"
  /\ Write(c, [req[c] EXCEPT !.user = SetValues(@, req[c].data)])

UpdateCommit(c) == req[c].kind = "update" /\ Commit(c)

\* the response of update built from the instance as update left it
Reloaded_NoReload(r, row) == Send(r, 200, docWithData(convert(r.user)))

\* the response of update: the reloaded instance, converted
Reloaded(r, row) == Send([r EXCEPT !.user = row], 200, docWithData(convert(row)))

\* update: (await user.reload()).convert(), outside every try block
UpdateReload(c) ==
  /\ req[c].pc = "reload"
  /\ \/ req' = [req EXCEPT ![c] = Escape(@)]
     \/ /\ findByPk(req[c].id) # NoUser
        /\ req' = [req EXCEPT ![c] = Reloaded(@, findByPk(req[c].id))]
  /\ UNCHANGED <<ctl, load, ise, store, nextId, nreq>>

\* destroy: await getUserById, 404 on a miss
DestroyLookup(c) ==
  /\ req[c].pc = "lookup" /\ req[c].kind = "destroy"
  /\ \/ \E error \in StoreFaults : req' = [req EXCEPT ![c] = Fault(@, error)]
     \/ req' = [req EXCEPT ![c] = getUserById(@, "write")]
  /\ UNCHANGED <<ctl, load, ise, store, nextId, nreq>>

\* destroy: user.destroy()
DestroyWrite(c) == req[c].kind = "destroy" /\ Write(c, req[c])

DestroyCommit(c) == req[c].kind = "destroy" /\ Commit(c)

Next ==
  \E c \in Clients :
    \/ Begin(c)
    \/ Index(c)
    \/ Show(c)
    \/ CreateValidate(c)
    \/ CreateWrite(c)
    \/ CreateCommit(c)
    \/ UpdateLookup(c)
    \/ UpdateValidate(c)
    \/ UpdateWrite(c)
    \/ UpdateCommit(c)
    \/ UpdateReload(c)
    \/ DestroyLookup(c)
    \/ DestroyWrite(c)
    \/ DestroyCommit(c)

Spec == Init /\ [][Next]_vars

SpecSolo == InitSolo /\ [][Next]_vars

\* the requests served by userController.ts alone
InitMain == Init /\ ctl = "userController.ts"

SpecMain == InitMain /\ [][Next]_vars

----------------------------------------------------------------------------
(* One InternalServerError instance, for any fault value *)

\* a catch block is handed a fault: any value
InitErr ==
  /\ ctl = "userController.ts"
  /\ load = "scenarios"
  /\ store = [i \in Ids |-> IF i = 1 THEN SeedRow ELSE NoRow]
  /\ nextId = 2
  /\ nreq = 0
  /\ req = [c \in Clients |-> Idle]
  /\ \E error \in FaultValues :
       ise = [NoIse EXCEPT !.pc = "caught", !.error = error]

\* new InternalServerError(error)
Construct ==
  /\ ise.pc = "caught"
  /\ ise' = [ise EXCEPT !.pc = "constructed", !.inst = NewInternalServerError(ise.error)]
  /\ UNCHANGED <<ctl, load, store, nextId, nreq, req>>

\* toJSON() on the instance, as each serialization of the response calls it:
\* it sets the detail field and returns the entry, or an exception leaves it
Render ==
  /\ ise.pc \in {"constructed", "rendered"}
  /\ ise.calls < MaxCalls
  /\ ise' = IF toJSONThrows(ise.inst)
            THEN [ise EXCEPT !.pc = "raised", !.calls = @ + 1]
            ELSE [ise EXCEPT !.pc = "rendered", !.calls = @ + 1,
                             !.inst.detail = DetailAfter(ise.inst),
                             !.out = toJSON(ise.inst)]
  /\ UNCHANGED <<ctl, load, store, nextId, nreq, req>>

NextErr == Construct \/ Render

SpecErr == InitErr /\ [][NextErr]_vars

TypeOK ==
  /\ ctl \in Controllers
  /\ load \in {"scenarios", "any"}
  /\ nreq \in 0..Budget
  /\ nextId \in 2..(MaxId + 1)
  /\ \A c \in Clients : req[c].status \in {0, 200, 201, 404, 422, 500}

----------------------------------------------------------------------------
(* Properties *)

Answered(c) == req[c].pc = "done"

InternalErrorDocs == {docWithErrors(<<internalServerError(e)>>) : e \in StoreFaults}

\* the fields an errors list names
ErrorFields(errors) == {errors[i].source.field : i \in 1..Len(errors)}

\* a value that passes every constraint update puts on field f
FieldOk(f, v) ==
  CASE f \in {"name", "screenName"} -> v # ""
    [] f = "email" -> v \in {"A@B.com"}
    [] f = "password" -> v \in {"Str0ng!pass"}

\* the fields of a create body that are missing or wrong, and name if supplied
OffendingCreate(b) ==
  {f \in {"screenName", "email", "password"} : f \notin DOMAIN b \/ ~FieldOk(f, b[f])}
    \cup ({"name"} \cap DOMAIN b)

\* the present fields of an update body that fail a constraint
OffendingUpdate(b) == {f \in DOMAIN b : ~FieldOk(f, b[f])}

\* C1: every store call that faults, in every endpoint, is answered with
\* status 500 and an InternalError document; no fault escapes the handler.
C1_EveryFaultAnswered500 ==
  \A c \in Clients :
    req[c].faulted =>
      /\ Answered(c)
      /\ req[c].status = 500
      /\ req[c].doc \in InternalErrorDocs

\* C2: an update or delete whose id is not in the store at lookup is answered
\* 404 with exactly one error entry and opens no transaction and issues no write.
C2_MissIs404NoWrite ==
  \A c \in Clients :
    (req[c].kind \in {"update", "destroy"} /\ req[c].lookup = "miss") =>
      /\ Answered(c)
      /\ req[c].status = 404
      /\ Len(req[c].doc.errors) = 1
      /\ req[c].txns = 0
      /\ req[c].writes = 0
      /\ ~req[c].committed

C2_Witness ==
  /\ req["a"].kind = "update" /\ req["a"].lookup = "miss" /\ req["a"].status = 404
  /\ req["b"].kind = "destroy" /\ req["b"].lookup = "miss" /\ req["b"].status = 404

\* C3: an update of an existing resource whose body has a present field that
\* fails its constraints is answered 422, and the whole store is as it was
\* when the request began.
C3_InvalidUpdate422StoreUnchanged ==
  \A c \in Clients :
    (/\ req[c].kind = "update"
     /\ req[c].lookup = "found"
     /\ OffendingUpdate(req[c].body) # {}
     /\ req[c].pc # "validate") =>
      /\ Answered(c)
      /\ req[c].status = 422
      /\ req[c].writes = 0
      /\ store = req[c].before

C3_Witness ==
  \E c \in Clients :
    /\ req[c].kind = "update" /\ req[c].lookup = "found" /\ req[c].status = 422
    /\ req[c].body = MkBody({"email"}, [ValidFull EXCEPT !.email = "not-an-email"])
    /\ store[1] = SeedRow

\* C4: every create, update and delete issues its store write at most once,
\* and a write that is issued runs inside exactly one transaction.
C4_OneWriteInOneTransaction ==
  \A c \in Clients :
    /\ req[c].writes <= 1
    /\ req[c].txns <= 1
    /\ req[c].writes = req[c].txns

\* C5: a store fault during the write of a create, update or delete leaves the
\* store as it was before the request, and the request is answered with 500.
C5_WriteFaultRollsBack500 ==
  \A c \in Clients :
    (req[c].faulted /\ req[c].writes > 0 /\ ~req[c].committed) =>
      /\ store = req[c].before
      /\ Answered(c)
      /\ req[c].status = 500

\* C6: every response has a status among 200, 201, 404, 422, 500, chosen by
\* the outcome (201 successful create, 200 other success, 404 lookup miss,
\* 422 validation failure, 500 store fault); errors with at least one entry
\* exactly for 404/422/500, data and no errors exactly for 200/201.
C6_StatusMatchesOutcome ==
  \A c \in Clients :
    req[c].sent > 0 =>
      LET r == req[c]
          failed == r.lookup = "miss" \/ Len(r.failures) > 0 \/ r.faulted
      IN /\ r.sent = 1
         /\ r.status \in {200, 201, 404, 422, 500}
         /\ r.status = 201 => r.kind = "create" /\ r.committed /\ ~failed
         /\ r.status = 200 => r.kind \in {"index", "show", "update", "destroy"} /\ ~failed
         /\ (r.status = 200 /\ r.kind \in {"update", "destroy"}) => r.committed
         /\ r.status = 404 => r.lookup = "miss"
         /\ r.status = 422 => Len(r.failures) > 0 /\ r.lookup # "miss"
         /\ r.status = 500 => r.faulted
         /\ r.status \in {404, 422, 500} <=>
              ("errors" \in DOMAIN r.doc /\ Len(r.doc.errors) >= 1)
         /\ r.status \in {200, 201} <=>
              ("data" \in DOMAIN r.doc /\ "errors" \notin DOMAIN r.doc)

C6_Witness ==
  /\ req["a"].status = 201 /\ "data" \in DOMAIN req["a"].doc
  /\ req["b"].status = 404 /\ "errors" \in DOMAIN req["b"].doc

\* C7: the data of a 200 update response is the representation of the row as
\* re-read from the store after the update's write has committed, at the re-read.
C7_UpdateResponseIsReRead ==
  [][\A c \in Clients :
       (req'[c].kind = "update" /\ req'[c].status = 200 /\ req[c].status # 200) =>
         /\ req[c].pc = "reload"
         /\ req[c].committed
         /\ store' = store
         /\ findByPk(req[c].id) # NoUser
         /\ req'[c].doc = docWithData(convert(store[req[c].id]))]_vars

\* an update of name and email answered with the normalized email and with
\* the screenName another update committed meanwhile
C7_Witness ==
  \E c \in Clients :
    /\ req[c].kind = "update" /\ req[c].status = 200 /\ req[c].id = 1
    /\ req[c].body = MkBody({"name", "email"}, ValidFull)
    /\ req[c].doc.data.email = "a@b.com"
    /\ req[c].doc.data.screenName = "ok"
    /\ req[c].before[1].screenName = "seed"

\* C8: the 422 of a create names every offending field at once: screenName,
\* email, password when missing or failing a constraint, name when supplied.
C8_CreateErrorsNameEveryOffender ==
  \A c \in Clients :
    (req[c].kind = "create" /\ req[c].pc # "validate") =>
      /\ OffendingCreate(req[c].body) # {} <=> req[c].status = 422
      /\ req[c].status = 422 =>
           ErrorFields(req[c].doc.errors) = OffendingCreate(req[c].body)

C8_Witness ==
  \E c \in Clients :
    /\ req[c].kind = "create" /\ req[c].status = 422
    /\ req[c].body = MkBody({"name", "email"}, [ValidFull EXCEPT !.email = "not-an-email"])
    /\ ErrorFields(req[c].doc.errors) = Fields

\* C9: in an update a field absent from the body gets no validation failure,
\* is not in the data given to the store write, and keeps its persisted value;
\* the write changes no other row.
C9_AbsentFieldUntouched ==
  [][\A c \in Clients :
       req'[c].kind = "update" =>
         LET r == req'[c]
             absent == Fields \ DOMAIN r.body
         IN /\ \A i \in 1..Len(r.failures) : r.failures[i][1] \notin absent
            /\ r.validated => DOMAIN r.data \cap absent = {}
            /\ (r.committed /\ ~req[c].committed) =>
                 /\ \A i \in Ids \ {r.id} : store'[i] = store[i]
                 /\ store[r.id] # NoRow =>
                      \A f \in absent : store'[r.id][f] = store[r.id][f]
            /\ (r.status = 200 /\ req[c].status # 200) =>
                 \A f \in absent : store'[r.id][f] = r.before[r.id][f]]_vars

C9_Witness ==
  \E c \in Clients :
    /\ req[c].kind = "update" /\ req[c].status = 200
    /\ req[c].body = MkBody({"screenName"}, ValidFull)
    /\ store[1] = [SeedRow EXCEPT !.screenName = "ok"]

\* C10: a create whose body has name is answered 422 with an entry for name
\* and writes nothing; the name a create persists is the generated one.
C10_CreateNameForbidden ==
  [][\A c \in Clients :
       req'[c].kind = "create" =>
         LET r == req'[c]
         IN /\ ("name" \in DOMAIN r.body /\ r.pc # "validate") =>
                 /\ r.status = 422
                 /\ "name" \in ErrorFields(r.doc.errors)
                 /\ r.writes = 0
                 /\ store' = r.before
            /\ (r.committed /\ ~req[c].committed) =>
                 /\ "name" \notin DOMAIN r.body
                 /\ store[nextId] = NoRow
                 /\ store'[nextId].name \in GenNames
                 /\ store'[nextId].name \notin FieldValues.name]_vars

C10_Witness ==
  \E c \in Clients :
    /\ req[c].kind = "create" /\ req[c].status = 422
    /\ req[c].body = MkBody(Fields, ValidFull)
    /\ ErrorFields(req[c].doc.errors) = {"name"}
    /\ store[2] = NoRow

\* C11: the entry rendered for an InternalError has the number 500 as status
\* and "Internal Server Error" as title, for every fault value.
C11_Status500TitlePhrase ==
  ise.pc = "rendered" =>
    /\ ise.out.status = JsNumber(500)
    /\ ise.out.title = JsString("Internal Server Error")

\* the detail the three cases choose for a fault value
ChosenDetail(error) ==
  CASE error.type = "Error" -> ErrorToString(error)
    [] error.type \in {"string", "number", "object", "null"} -> JSONstringify(error).text
    [] OTHER -> GenericDetail

\* C12: the detail of the rendered entry is the string form of an Error-like
\* fault, else the serialized form of a fault that survives serialize-then-
\* parse, else the generic message of the constructor.
C12_DetailChosenFromFault ==
  ise.pc = "rendered" => ise.out.detail = JsString(ChosenDetail(ise.error))

\* C13: for every fault value, constructing InternalServerError and calling
\* toJSON returns a document and never raises.
C13_RenderingIsTotal ==
  /\ ise.pc # "raised"
  /\ ise.calls > 0 =>
       /\ ise.pc = "rendered"
       /\ DOMAIN ise.out = {"status", "title", "detail"}

C13_Witness ==
  /\ ise.error.type = "circular"
  /\ ise.pc = "rendered"
  /\ ise.inst.detail = GenericDetail

\* C19: the document toJSON returns is the same for every fault value; the
\* fault changes only the detail field of the instance, which the document
\* does not carry.
C19_DocumentIndependentOfFault ==
  ise.pc = "rendered" =>
    /\ \A other \in FaultValues : ise.out = toJSON(NewInternalServerError(other))
    /\ ise.out.detail # JsString(ise.inst.detail)
    /\ [ise.inst EXCEPT !.detail = GenericDetail] = NewInternalServerError(ise.error)

C19_Witness ==
  /\ ise.pc = "rendered"
  /\ ise.error = [type |-> "Error", name |-> "TypeError", text |-> "boom"]
  /\ ise.inst.detail = "TypeError: boom"
  /\ ise.out.detail = JsString("")

\* the handler of c has run to its end: it answered, or a rejection left it
Ended(c) == req[c].pc \in {"done", "unhandled"}

\* C14: a request whose write or re-read meets a row that another request
\* removed after its lookup is answered with 500 and an InternalError
\* document; it is never answered 200 and never left unanswered.
C14_ConflictIs500 ==
  [][\A c \in Clients :
       (/\ req[c].kind \in {"update", "destroy"}
        /\ req[c].lookup = "found"
        /\ req[c].pc \in {"write", "commit", "reload"}
        /\ store[req[c].id] = NoRow
        /\ req'[c].pc \in {"done", "unhandled"}) =>
         /\ req'[c].pc = "done"
         /\ req'[c].status = 500
         /\ req'[c].doc \in InternalErrorDocs]_vars

\* C15: a request that has failed and sent its error response runs no further
\* stage and sends nothing more; every request sends at most one response.
C15_FailureIsTerminal ==
  [][\A c \in Clients :
       /\ req'[c].sent <= 1
       /\ req'[c].status \in {404, 422, 500} => req'[c].pc = "done"
       /\ req[c].status \in {404, 422, 500} =>
            \/ req'[c] = req[c]
            \/ /\ nreq' = nreq + 1
               /\ req'[c].sent = 0 /\ req'[c].status = 0
               /\ store' = store]_vars

C15_Witness ==
  /\ req["a"].kind = "update" /\ req["a"].status = 422 /\ req["a"].writes = 0
  /\ req["b"].kind = "create" /\ req["b"].status = 500 /\ req["b"].sent = 1

\* C16: the write of a create or update starts only after validation ended
\* with no failure, and the write of an update or delete only after the
\* lookup found the row; a request is in one stage at a time.
C16_WriteAfterValidationAndLookup ==
  \A c \in Clients :
    /\ req[c].pc \in {"idle", "findAll", "lookup", "validate", "write", "commit",
                      "reload", "done", "unhandled"}
    /\ (req[c].writes > 0 \/ req[c].pc \in {"write", "commit", "reload"}) =>
         /\ req[c].kind \in {"create", "update"} =>
              req[c].validated /\ req[c].failures = <<>>
         /\ req[c].kind \in {"update", "destroy"} => req[c].lookup = "found"
    /\ req[c].pc = "validate" => req[c].writes = 0 /\ ~req[c].validated

C16_Witness ==
  /\ req["a"].kind = "update" /\ req["a"].pc = "commit" /\ req["a"].validated
  /\ req["b"].kind = "destroy" /\ req["b"].pc = "commit" /\ req["b"].lookup = "found"

\* C17: in an update the lookup runs before validation: an id that is not in
\* the store with an invalid body is answered 404, never 422, and validation
\* is not run.
C17_LookupBeforeValidation ==
  \A c \in Clients :
    req[c].kind = "update" =>
      /\ (req[c].validated \/ Len(req[c].failures) > 0 \/ req[c].status = 422) =>
           req[c].lookup = "found"
      /\ req[c].lookup = "miss" =>
           /\ req[c].status = 404
           /\ req[c].doc = docWithErrors(<<resourceNotFound>>)
           /\ req[c].failures = <<>> /\ ~req[c].validated

C17_Witness ==
  \E c \in Clients :
    /\ req[c].kind = "update" /\ req[c].id = 2 /\ req[c].status = 404
    /\ req[c].body = MkBody({"email", "password"},
                            [ValidFull EXCEPT !.email = "not-an-email", !.password = "weak"])

\* C18: every request reaches Responded: a handler whose store calls each
\* return or fault never ends without having sent its response.
C18_EveryRequestResponds ==
  \A c \in Clients : Ended(c) => Answered(c) /\ req[c].sent = 1

\* C20: a delete answered 200 has removed the row, its data is the
\* representation its own lookup read, and a lookup of that id made
\* afterwards misses and is answered 404.
C20_DeleteRemovesAndReturnsLookupCopy ==
  [][\A c \in Clients :
       /\ (req'[c].kind = "destroy" /\ req'[c].status = 200 /\ req[c].status # 200) =>
            /\ req[c].lookup = "found"
            /\ store'[req[c].id] = NoRow
            /\ req'[c].doc = docWithData(convert(req[c].user))
            /\ req[c].user.id = req[c].id
       /\ (req[c].kind = "destroy" /\ req[c].status = 200) =>
            /\ store[req[c].id] = NoRow
            /\ \A d \in Clients :
                 (req[d].pc = "lookup" /\ req[d].id = req[c].id /\ req'[d] # req[d]) =>
                   /\ req'[d].lookup # "found"
                   /\ ~req'[d].faulted => req'[d].status = 404]_vars

\* a delete answered with the row as its lookup read it, although an update
\* changed the row before the delete removed it
C20_Witness ==
  /\ req["a"].kind = "destroy" /\ req["a"].status = 200 /\ req["a"].id = 1
  /\ req["a"].doc.data.screenName = "seed"
  /\ req["b"].kind = "update" /\ req["b"].status = 200 /\ req["b"].id = 1
  /\ req["b"].doc.data.screenName = "ok"
  /\ store[1] = NoRow

====
